---- MODULE Spec2Model ----
(***************************************************************************)
(* Model of the dynamic computation graph of src/src/lib.rs (struct Dcg).  *)
(*                                                                         *)
(* The graph is a petgraph DiGraph<Node<T>, bool>: nodes and edges are     *)
(* kept in insertion order, a node index is its position in `nodes`, an    *)
(* edge index its position in `edges`.  A generator (the closure given to  *)
(* thunk/memo/lone_thunk/lone_memo) is represented by what it computes: a  *)
(* constant plus the values it reads with Dcg::get from the nodes it was   *)
(* declared to depend on.                                                  *)
(***************************************************************************)
EXTENDS Integers, Sequences, FiniteSets

\* ---- bounds ----
MaxNodes == 3
MaxDeps  == 2
MaxVal   == 1
MaxCalls == 2

Values == 0 .. MaxVal
Modulus == MaxVal + 1

\* nodes, edges : the DiGraph behind the RefCell (node and edge weights)
\* calls        : per node, how often its generator has run (capped at MaxCalls)
\* written      : per Cell, the value of the latest write (by cell or set)
\* mutated      : per node, whether a Cell it depends on was set since it was built
\* lastOp       : the latest call on the Dcg and what it returned
\* built        : per node, the constructor that made it and the dependencies it was given
\* gets         : per node, how often a get on the node itself ran its generator
\*                (capped at MaxCalls) and the value the first get on it returned
\* borrow       : the RefCell's count of outstanding shared borrows (Ref)
\* stack        : the generators that are running, outermost first
VARIABLES nodes, edges, calls, written, mutated, built, gets, lastOp, borrow, stack
vars == <<nodes, edges, calls, written, mutated, built, gets, lastOp, borrow, stack>>

\* Option<T>: None is the empty sequence, Some(v) the one-element sequence.
None == << >>
Some(v) == << v >>

NodeIds(ns) == 1 .. Len(ns)

\* ---- node payloads (enum Node) ----
\* val: the Cell's value, or the Memo's cache slot (Option<T>).
\* k, reads: the generator, which returns k + the sum of get(d) for d in reads.
CellNode(v) == [kind |-> "Cell", val |-> Some(v), k |-> 0, reads |-> << >>]

ThunkNode(k, deps) == [kind |-> "Thunk", val |-> None, k |-> k, reads |-> deps]

RECURSIVE SumSeq(_)
SumSeq(s) == IF s = << >> THEN 0 ELSE Head(s) + SumSeq(Tail(s))

\* ---- Dcg::get ----
\* Value returned by get on node n of graph ns.  A generator's calls to
\* get on its dependencies are the recursive uses.
RECURSIVE get(_, _)
get(ns, n) ==
    LET nd == ns[n] IN
    CASE nd.kind = "Cell"  -> nd.val[1]
      [] nd.kind = "Thunk" ->
            (nd.k + SumSeq([i \in 1 .. Len(nd.reads) |-> get(ns, nd.reads[i])])) % Modulus
      [] nd.kind = "Memo"  ->
            IF nd.val # None
            THEN nd.val[1]
            ELSE (nd.k + SumSeq([i \in 1 .. Len(nd.reads) |-> get(ns, nd.reads[i])])) % Modulus

\* Whether get on node n runs n's own generator.
Regenerates(ns, n) ==
    \/ ns[n].kind = "Thunk"
    \/ ns[n].kind = "Memo" /\ ns[n].val = None

\* Number of times the generator of node t runs during one get on node n.
RECURSIVE Invocations(_, _, _)
Invocations(ns, n, t) ==
    IF ~Regenerates(ns, n) THEN 0
    ELSE (IF n = t THEN 1 ELSE 0)
         + SumSeq([i \in 1 .. Len(ns[n].reads) |-> Invocations(ns, ns[n].reads[i], t)])

\* The value of the generator (k, deps) evaluated on graph ns.
thunk(ns, k, deps) ==
    (k + SumSeq([i \in 1 .. Len(deps) |-> get(ns, deps[i])])) % Modulus

MemoNodeEager(ns, k, deps) ==
    [kind |-> "Memo", val |-> Some(thunk(ns, k, deps)), k |-> k, reads |-> deps]

\* Dcg::memo inserts Node::Memo(thunk, None).
MemoNode(ns, k, deps) == [kind |-> "Memo", val |-> None, k |-> k, reads |-> deps]

LoneMemoNodeEmpty(k) == [kind |-> "Memo", val |-> None, k |-> k, reads |-> << >>]

\* Dcg::lone_memo inserts Node::Memo(thunk, Some(thunk())).
LoneMemoNode(k) == [kind |-> "Memo", val |-> Some(k % Modulus), k |-> k, reads |-> << >>]

is_dirty_outgoing(es, n) == \E i \in 1 .. Len(es) : es[i].src = n /\ es[i].w

\* ---- Dcg::is_dirty ----
is_dirty(es, n) == \E i \in 1 .. Len(es) : es[i].dst = n /\ es[i].w

add_dependencies_reversed(es, n, deps) ==
    es \o [i \in 1 .. Len(deps) |-> [src |-> n, dst |-> deps[i], w |-> is_dirty(es, deps[i])]]

add_dependencies_only_new(es, n, deps) ==
    [i \in 1 .. Len(deps) |-> [src |-> deps[i], dst |-> n, w |-> is_dirty(es, deps[i])]]

\* ---- Dcg::add_dependencies ----
\* The dirty flags of all dependencies are collected first, then one edge
\* per listed dependency is added, in the order given.
add_dependencies(es, n, deps) ==
    es \o [i \in 1 .. Len(deps) |-> [src |-> deps[i], dst |-> n, w |-> is_dirty(es, deps[i])]]

\* ---- petgraph primitives used by Dcg::set ----
\* Outgoing neighbours of u in the order DiGraph::neighbors yields them:
\* the adjacency list is threaded newest edge first.
RECURSIVE NeighborsFrom(_, _, _)
NeighborsFrom(es, u, i) ==
    IF i = 0 THEN << >>
    ELSE IF es[i].src = u THEN << es[i].dst >> \o NeighborsFrom(es, u, i - 1)
         ELSE NeighborsFrom(es, u, i - 1)

neighbors(es, u) == NeighborsFrom(es, u, Len(es))

\* DiGraph::find_edge(u, v): the first edge u -> v of u's adjacency list,
\* that is the newest one; 0 when there is none.
find_edge(es, u, v) ==
    LET S == {i \in 1 .. Len(es) : es[i].src = u /\ es[i].dst = v} IN
    IF S = {} THEN 0 ELSE CHOOSE i \in S : \A j \in S : j <= i

\* petgraph::visit::depth_first_search with the visitor of Dcg::set: st is
\* [disc, fin, rec, back] = discovered set, finished set, transitive_edges,
\* and whether a BackEdge event was delivered.
RECURSIVE dfs_visitor(_, _, _), dfs_neighbors(_, _, _, _)
dfs_visitor_unmarked(es, u, st) ==
    LET s1 == dfs_neighbors(es, u, neighbors(es, u), st)
    IN  [s1 EXCEPT !.fin = @ \cup {u}]

dfs_visitor(es, u, st) ==
    IF u \in st.disc THEN st
    ELSE LET s1 == dfs_neighbors(es, u, neighbors(es, u), [st EXCEPT !.disc = @ \cup {u}])
         IN  [s1 EXCEPT !.fin = @ \cup {u}]

dfs_neighbors(es, u, nbrs, st) ==
    IF nbrs = << >> THEN st
    ELSE LET v == Head(nbrs)
             s1 == IF v \notin st.disc
                   THEN \* TreeEdge(u, v)
                        dfs_visitor(es, v, [st EXCEPT !.rec = Append(@, find_edge(es, u, v))])
                   ELSE IF v \notin st.fin
                   THEN \* BackEdge(u, v): not recorded
                        [st EXCEPT !.back = TRUE]
                   ELSE \* CrossForwardEdge(u, v)
                        [st EXCEPT !.rec = Append(@, find_edge(es, u, v))]
         IN  dfs_neighbors(es, u, Tail(nbrs), s1)

depth_first_search(es, idx) ==
    dfs_visitor(es, idx, [disc |-> {}, fin |-> {}, rec |-> << >>, back |-> FALSE])

transitive_edges(es, idx) == depth_first_search(es, idx).rec

InRec(rec, e) == \E j \in 1 .. Len(rec) : rec[j] = e

DirtyAll(es, rec) == [i \in 1 .. Len(es) |-> [es[i] EXCEPT !.w = TRUE]]

DirtyAssign(es, rec) ==
    [i \in 1 .. Len(es) |-> [es[i] EXCEPT !.w = InRec(rec, i)]]

\* The last loop of Dcg::set: every recorded edge gets weight true.
DirtyRecorded(es, rec) ==
    [i \in 1 .. Len(es) |-> IF InRec(rec, i) THEN [es[i] EXCEPT !.w = TRUE] ELSE es[i]]

\* ---- bookkeeping over the call history ----
Cap(n) == IF n > MaxCalls THEN MaxCalls ELSE n

\* n is c or depends on c through the declared dependencies.
RECURSIVE DependsOn(_, _, _)
DependsOn(ns, n, c) ==
    \/ n = c
    \/ \E i \in 1 .. Len(ns[n].reads) : DependsOn(ns, ns[n].reads[i], c)

NoRet == -1

Op(op, n, ret, regen) == [op |-> op, node |-> n, ret |-> ret, regen |-> regen]

\* Dependency lists a caller can pass: handles of nodes already in the graph.
DepLists(ns) == UNION {[1 .. l -> NodeIds(ns)] : l \in 0 .. MaxDeps}

\* ---- Dcg::new ----
Init ==
    /\ nodes = << >>
    /\ edges = << >>
    /\ calls = << >>
    /\ written = << >>
    /\ mutated = << >>
    /\ built = << >>
    /\ gets = << >>
    /\ lastOp = Op("new", 0, NoRet, FALSE)
    /\ borrow = 0
    /\ stack = << >>

\* ---- Dcg::cell ----
cell(value) ==
    /\ Len(nodes) < MaxNodes
    /\ nodes' = Append(nodes, CellNode(value))
    /\ calls' = Append(calls, 0)
    /\ written' = Append(written, << value >>)
    /\ mutated' = Append(mutated, FALSE)
    /\ built' = Append(built, [by |-> "cell", deps |-> << >>])
    /\ gets' = Append(gets, [runs |-> 0, first |-> NoRet])
    /\ lastOp' = Op("cell", Len(nodes) + 1, NoRet, FALSE)
    /\ UNCHANGED <<borrow, stack>>
    /\ UNCHANGED edges

\* ---- Dcg::thunk ----
Thunk(k, dependencies) ==
    /\ Len(nodes) < MaxNodes
    /\ nodes' = Append(nodes, ThunkNode(k, dependencies))
    /\ edges' = add_dependencies(edges, Len(nodes) + 1, dependencies)
    /\ calls' = Append(calls, 0)
    /\ written' = Append(written, << >>)
    /\ mutated' = Append(mutated, FALSE)
    /\ built' = Append(built, [by |-> "thunk", deps |-> dependencies])
    /\ gets' = Append(gets, [runs |-> 0, first |-> NoRet])
    /\ lastOp' = Op("thunk", Len(nodes) + 1, NoRet, FALSE)
    /\ UNCHANGED <<borrow, stack>>

\* ---- Dcg::memo ----
Memo(k, dependencies) ==
    /\ Len(nodes) < MaxNodes
    /\ nodes' = Append(nodes, MemoNode(nodes, k, dependencies))
    /\ edges' = add_dependencies(edges, Len(nodes) + 1, dependencies)
    /\ calls' = Append(calls, 0)
    /\ written' = Append(written, << >>)
    /\ mutated' = Append(mutated, FALSE)
    /\ built' = Append(built, [by |-> "memo", deps |-> dependencies])
    /\ gets' = Append(gets, [runs |-> 0, first |-> NoRet])
    /\ lastOp' = Op("memo", Len(nodes) + 1, NoRet, FALSE)
    /\ UNCHANGED <<borrow, stack>>

\* ---- Dcg::lone_thunk ----
lone_thunk(k) ==
    /\ Len(nodes) < MaxNodes
    /\ nodes' = Append(nodes, ThunkNode(k, << >>))
    /\ calls' = Append(calls, 0)
    /\ written' = Append(written, << >>)
    /\ mutated' = Append(mutated, FALSE)
    /\ built' = Append(built, [by |-> "lone_thunk", deps |-> << >>])
    /\ gets' = Append(gets, [runs |-> 0, first |-> NoRet])
    /\ lastOp' = Op("lone_thunk", Len(nodes) + 1, NoRet, FALSE)
    /\ UNCHANGED <<borrow, stack>>
    /\ UNCHANGED edges

\* ---- Dcg::lone_memo ----  (the generator runs once, at construction)
lone_memo(k) ==
    /\ Len(nodes) < MaxNodes
    /\ nodes' = Append(nodes, LoneMemoNode(k))
    /\ calls' = Append(calls, 1)
    /\ written' = Append(written, << >>)
    /\ mutated' = Append(mutated, FALSE)
    /\ built' = Append(built, [by |-> "lone_memo", deps |-> << >>])
    /\ gets' = Append(gets, [runs |-> 0, first |-> NoRet])
    /\ lastOp' = Op("lone_memo", Len(nodes) + 1, NoRet, FALSE)
    /\ UNCHANGED <<borrow, stack>>
    /\ UNCHANGED edges

AfterGetCaching(ns, node) ==
    IF ns[node].kind = "Cell" THEN ns
    ELSE [ns EXCEPT ![node].val = Some(get(ns, node))]

\* The node weights after Dcg::get: the graph is reached through
\* self.borrow() only, so nothing is written.
AfterGet(ns, node) == ns

\* ---- Dcg::get ----
Get(node) ==
    /\ node \in NodeIds(nodes)
    /\ nodes' = AfterGet(nodes, node)
    /\ lastOp' = Op("get", node, get(nodes, node), Regenerates(nodes, node))
    /\ UNCHANGED <<borrow, stack>>
    /\ calls' = [t \in NodeIds(nodes) |-> Cap(calls[t] + Invocations(nodes, node, t))]
    /\ gets' = [gets EXCEPT ![node] =
                  [runs  |-> Cap(@.runs + (IF Regenerates(nodes, node) THEN 1 ELSE 0)),
                   first |-> IF @.first = NoRet THEN get(nodes, node) ELSE @.first]]
    /\ UNCHANGED <<edges, written, mutated, built>>

SetReturnsNew(old, new_value) == new_value

\* What Dcg::set returns: tmp, the clone of the value taken before the write.
SetReturn(old, new_value) == old

SetKeepsOld(old, new_value) == old

\* What Dcg::set leaves in the Cell: *value = new_value.
SetStore(old, new_value) == new_value

\* ---- Dcg::set ----  (accepts a DcgNode<Cell> only)
Set(node, new_value) ==
    /\ node \in NodeIds(nodes)
    /\ nodes[node].kind = "Cell"
    /\ nodes' = [nodes EXCEPT ![node].val = Some(SetStore(nodes[node].val[1], new_value))]
    /\ edges' = DirtyRecorded(edges, transitive_edges(edges, node))
    /\ written' = [written EXCEPT ![node] = << new_value >>]
    /\ mutated' = [n \in NodeIds(nodes) |-> mutated[n] \/ DependsOn(nodes, n, node)]
    /\ lastOp' = Op("set", node, SetReturn(nodes[node].val[1], new_value), FALSE)
    /\ UNCHANGED <<borrow, stack>>
    /\ UNCHANGED <<calls, built, gets>>

\* Calls made one after the other by the owner of the Dcg, each running to
\* completion: no borrow is outstanding between them.
Next ==
    \/ \E v \in Values : cell(v)
    \/ \E k \in Values : \E deps \in DepLists(nodes) : Thunk(k, deps)
    \/ \E k \in Values : \E deps \in DepLists(nodes) : Memo(k, deps)
    \/ \E k \in Values : lone_thunk(k)
    \/ \E k \in Values : lone_memo(k)
    \/ \E n \in NodeIds(nodes) : Get(n)
    \/ \E n \in NodeIds(nodes) : \E v \in Values : Set(n, v)

Spec == Init /\ [][Next]_vars

\* ---- handles (struct DcgNode<Ty>) and their conversions ----
Tags == {"Cell", "Thunk", "Memo"}

\* The handle a constructor returns: DcgNode(node, PhantomData).
HandleOf(ns, n) == [idx |-> n, ty |-> ns[n].kind]

\* impl From<DcgNode<Ty>> for NodeIndex
into(h) == h.idx

\* impl From<NodeIndex> for DcgNode<Ty>, for the Ty the caller asks for
from(idx, ty) == [idx |-> idx, ty |-> ty]

\* Handles a caller can make out of returned ones with the two conversions.
Converted(ns) == {from(into(HandleOf(ns, n)), ty) : n \in NodeIds(ns), ty \in Tags}

\* Dcg::set called with a handle of type DcgNode<Cell>: the match on the
\* node weight ends in unreachable!() when the weight is not a Cell.
SetHandle(h, new_value) ==
    /\ h.ty = "Cell"
    /\ into(h) \in NodeIds(nodes)
    /\ IF nodes[into(h)].kind = "Cell"
       THEN Set(into(h), new_value)
       ELSE /\ lastOp' = Op("set_unreachable", into(h), NoRet, FALSE)
            /\ UNCHANGED <<nodes, edges, calls, written, mutated, built, gets, borrow, stack>>

NextHandles ==
    \/ \E v \in Values : cell(v)
    \/ \E k \in Values : \E deps \in DepLists(nodes) : Thunk(k, deps)
    \/ \E k \in Values : \E deps \in DepLists(nodes) : Memo(k, deps)
    \/ \E k \in Values : lone_thunk(k)
    \/ \E k \in Values : lone_memo(k)
    \/ \E n \in NodeIds(nodes) : Get(n)
    \/ \E h \in {g \in Converted(nodes) : g.ty = "Cell"} : \E v \in Values : SetHandle(h, v)

\* The calls of Spec, with set taking any handle the conversions produce.
SpecHandles == Init /\ [][NextHandles]_vars

\* ---- Dcg::get step by step, with the generators' own calls ----
\* A frame is a generator that is running inside Dcg::get: the node it
\* belongs to, how many of its reads it has done, and their running sum.
\* Each frame holds the Ref that get took with self.borrow().
Frame(n, i, acc) == [node |-> n, i |-> i, acc |-> acc]

Top == stack[Len(stack)]

\* The top generator has received the value v of its next read.
Deliver(st, v) ==
    [st EXCEPT ![Len(st)] = Frame(@.node, @.i + 1, (@.acc + v) % Modulus)]

try_borrow_mut_always(b) == TRUE

\* RefCell::borrow_mut succeeds only while no borrow is outstanding;
\* otherwise it panics (BorrowMutError).
try_borrow_mut(b) == b = 0

UnwoundLeaks(b) == b

\* The borrow count after a panic has unwound out of get: every Ref on the
\* way is dropped.
Unwound(b) == 0

\* A panic inside a running generator unwinds to the caller of the
\* outermost get.
Unwind(op) ==
    /\ stack # << >>
    /\ stack' = << >>
    /\ borrow' = Unwound(borrow)
    /\ lastOp' = Op(op, stack[1].node, NoRet, TRUE)
    /\ UNCHANGED <<nodes, edges, calls, written, mutated, built, gets>>

\* dcg.get(node), called by the owner of the Dcg or by the running
\* generator for its next declared dependency.
RunGet(node) ==
    /\ node \in NodeIds(nodes)
    /\ \/ stack = << >>
       \/ /\ stack # << >>
          /\ Top.i < Len(nodes[Top.node].reads)
          /\ node = nodes[Top.node].reads[Top.i + 1]
    /\ IF Regenerates(nodes, node)
       THEN \* thunk() is called while the Ref of this get is alive
            /\ stack' = Append(stack, Frame(node, 0, 0))
            /\ borrow' = borrow + 1
            /\ lastOp' = Op("call", node, NoRet, TRUE)
       ELSE \* value.clone()
            /\ borrow' = borrow
            /\ IF stack = << >>
               THEN /\ lastOp' = Op("get", node, nodes[node].val[1], FALSE)
                    /\ stack' = stack
               ELSE /\ lastOp' = Op("call", node, NoRet, FALSE)
                    /\ stack' = Deliver(stack, nodes[node].val[1])
    /\ UNCHANGED <<nodes, edges, calls, written, mutated, built, gets>>

\* The top generator has done all its reads and returns; get returns the
\* clone of its result and drops its Ref.
RunReturn ==
    /\ stack # << >>
    /\ Top.i = Len(nodes[Top.node].reads)
    /\ LET v    == (nodes[Top.node].k + Top.acc) % Modulus
           rest == SubSeq(stack, 1, Len(stack) - 1)
       IN  /\ nodes' = AfterGet(nodes, Top.node)
           /\ borrow' = borrow - 1
           /\ IF rest = << >>
              THEN /\ stack' = rest
                   /\ lastOp' = Op("get", Top.node, v, TRUE)
              ELSE /\ stack' = Deliver(rest, v)
                   /\ lastOp' = Op("call", Top.node, NoRet, TRUE)
    /\ UNCHANGED <<edges, calls, written, mutated, built, gets>>

\* The running generator panics.
RunPanic == Unwind("get_panic")

\* A call of set or of a constructor, by the owner of the Dcg or from
\* inside the running generator: each starts with self.borrow_mut().
RunMutate ==
    IF try_borrow_mut(borrow)
    THEN \/ \E v \in Values : cell(v)
         \/ \E k \in Values : \E deps \in DepLists(nodes) : Thunk(k, deps)
         \/ \E k \in Values : \E deps \in DepLists(nodes) : Memo(k, deps)
         \/ \E k \in Values : lone_thunk(k)
         \/ \E k \in Values : lone_memo(k)
         \/ \E n \in NodeIds(nodes) : \E v \in Values : Set(n, v)
    ELSE Unwind("borrow_mut_panic")

NextRun ==
    \/ \E n \in NodeIds(nodes) : RunGet(n)
    \/ RunReturn
    \/ RunPanic
    \/ RunMutate

\* The calls of Spec with get taken apart into the steps of its generators,
\* which may panic or call back into the Dcg.  The call statistics (calls,
\* gets) are kept by the one-step Get of Spec only.
SpecRun == Init /\ [][NextRun]_vars

\* One more step of the generator that is running inside get: its next
\* dcg.get on a declared dependency, or its return.
RunStep ==
    /\ stack # << >>
    /\ \/ RunReturn
       \/ \E n \in NodeIds(nodes) : RunGet(n)

\* SpecRun with generators that terminate: get calls thunk() on the caller's
\* own thread, so a generator that has been started keeps running until it
\* returns (or unwinds); nobody is obliged to start a call.
SpecRunFair == Init /\ [][NextRun]_vars /\ WF_vars(RunStep)

\* ---- definitions used to state the properties ----
\* Full from-scratch evaluation of node n over the current Cell values:
\* every generator is run, no cache slot is consulted.
RECURSIVE Scratch(_, _)
Scratch(ns, n) ==
    IF ns[n].kind = "Cell" THEN ns[n].val[1]
    ELSE (ns[n].k + SumSeq([i \in 1 .. Len(ns[n].reads) |-> Scratch(ns, ns[n].reads[i])])) % Modulus

\* Sources of the incoming edges of n, in edge order.
RECURSIVE IncomingFrom(_, _, _)
IncomingFrom(es, n, i) ==
    IF i > Len(es) THEN << >>
    ELSE IF es[i].dst = n THEN << es[i].src >> \o IncomingFrom(es, n, i + 1)
         ELSE IncomingFrom(es, n, i + 1)

Incoming(es, n) == IncomingFrom(es, n, 1)

\* Nodes reachable from c along edges (c included).
RECURSIVE ReachSet(_, _)
ReachSet(es, S) ==
    LET T == S \cup {es[i].dst : i \in {j \in 1 .. Len(es) : es[j].src \in S}}
    IN  IF T = S THEN S ELSE ReachSet(es, T)

Downstream(es, c) == ReachSet(es, {c})

IsGetOn(op, kind) == op.op = "get" /\ nodes[op.node].kind = kind

\* C1: every get returns the value a full from-scratch evaluation of the
\* handle's computation over the current Cell values produces.
C1_GetIsFromScratch ==
    lastOp.op = "get" => lastOp.ret = Scratch(nodes, lastOp.node)

\* A get on a memo whose dependency was set and whose incoming edge is dirty.
C1_Witness ==
    /\ IsGetOn(lastOp, "Memo")
    /\ built[lastOp.node].by = "memo"
    /\ mutated[lastOp.node]
    /\ is_dirty(edges, lastOp.node)
    /\ lastOp.ret = Scratch(nodes, lastOp.node)

\* C2: get on a Memo returns the cache without running the generator exactly
\* when a cached value is present and every incoming edge is clean; otherwise
\* it runs the generator; afterwards the cache slot holds the returned value.
C2_MemoGetCaches ==
    [][lastOp'.op = "get" /\ nodes[lastOp'.node].kind = "Memo" =>
         LET m == lastOp'.node
             reuse == nodes[m].val # None /\ ~is_dirty(edges, m)
         IN  /\ lastOp'.regen <=> ~reuse
             /\ reuse => lastOp'.ret = nodes[m].val[1]
             /\ nodes'[m].val = Some(lastOp'.ret)]_vars

\* C3: a Memo made by memo whose dependencies are never set after its
\* construction has its generator run at most once over all gets, and
\* successive gets on it return the same value.
C3_MemoRunsOnce ==
    [][\A m \in NodeIds(nodes) :
         built[m].by = "memo" /\ ~mutated'[m] =>
            /\ gets'[m].runs <= 1
            /\ (lastOp'.op = "get" /\ lastOp'.node = m) => lastOp'.ret = gets'[m].first]_vars

\* C4: after a get on a Memo that ran the generator, every incoming edge
\* of that Memo is clean.
C4_RecomputeCleans ==
    IsGetOn(lastOp, "Memo") /\ lastOp.regen => ~is_dirty(edges, lastOp.node)

\* C5: immediately after set(c, v), every edge whose source is c or is
\* reachable from c is dirty.
C5_SetDirtiesDownstream ==
    lastOp.op = "set" =>
        \A i \in 1 .. Len(edges) :
            edges[i].src \in Downstream(edges, lastOp.node) => edges[i].w

\* C6: set returns the value the Cell held immediately before the call.
C6_SetReturnsOld ==
    [][lastOp'.op = "set" => lastOp'.ret = written[lastOp'.node][1]]_vars

\* A set that changed the value: it returned something else than it stored.
C6_Witness ==
    /\ lastOp.op = "set"
    /\ lastOp.ret # written[lastOp.node][1]
    /\ lastOp.ret # NoRet

\* C7: get on a Cell returns the value most recently stored in it, by cell
\* or by the latest set on it.
C7_CellGetLatest ==
    /\ \A c \in NodeIds(nodes) : nodes[c].kind = "Cell" => get(nodes, c) = written[c][1]
    /\ IsGetOn(lastOp, "Cell") => lastOp.ret = written[lastOp.node][1]

\* A get on a Cell that was set, with a get on another node's generator
\* having run in between.
C7_Witness ==
    /\ IsGetOn(lastOp, "Cell")
    /\ mutated[lastOp.node]
    /\ \E t \in NodeIds(nodes) : calls[t] > 0 /\ mutated[t] /\ built[t].deps # << >>

\* C8: an edge (d, new) inserted by thunk or memo starts dirty iff d has a
\* dirty incoming edge at that moment; an edge from a Cell starts clean.
C8_NewEdgeWeight ==
    [][\A i \in (Len(edges) + 1) .. Len(edges') :
         /\ edges'[i].w <=> (\E j \in 1 .. Len(edges) :
                                 edges[j].dst = edges'[i].src /\ edges[j].w)
         /\ nodes[edges'[i].src].kind = "Cell" => ~edges'[i].w]_vars

\* A construction that inserted one dirty and one clean edge.
C8_Witness ==
    /\ lastOp.op \in {"thunk", "memo"}
    /\ \E i, j \in 1 .. Len(edges) :
          /\ edges[i].dst = lastOp.node /\ edges[i].w
          /\ edges[j].dst = lastOp.node /\ ~edges[j].w

\* C9: the sources of the incoming edges of every node are exactly the
\* dependencies it was constructed with (none for Cells and lone nodes),
\* and no operation adds or removes an edge of an existing node.
C9_EdgesAreDeclaredDeps ==
    /\ \A n \in NodeIds(nodes) : Incoming(edges, n) = built[n].deps
    /\ \A n \in NodeIds(nodes) :
          built[n].by \in {"cell", "lone_thunk", "lone_memo"} => Incoming(edges, n) = << >>
    /\ \A i \in 1 .. Len(edges) : edges[i].dst \in NodeIds(nodes)

\* A node built with two dependencies, after a later construction, set and get.
C9_Witness ==
    /\ \E n \in NodeIds(nodes) :
          /\ Len(built[n].deps) = 2 /\ n < Len(nodes)
          /\ mutated[n] /\ calls[n] > 0
    /\ lastOp.op = "get"

C11_LoneMemoRunsOnce ==
    \A m \in NodeIds(nodes) :
        built[m].by = "lone_memo" =>
            /\ calls[m] = 1
            /\ gets[m].runs = 0
            /\ nodes[m].val = Some(nodes[m].k % Modulus)
            /\ Incoming(edges, m) = << >>
            /\ (lastOp.op = "get" /\ lastOp.node = m) =>
                  lastOp.ret = nodes[m].k % Modulus /\ ~lastOp.regen

\* A get on a lone memo after a later construction and a set on a Cell.
C11_Witness ==
    /\ lastOp.op = "get"
    /\ built[lastOp.node].by = "lone_memo"
    /\ lastOp.node < Len(nodes)
    /\ \E c \in NodeIds(nodes) : mutated[c]

\* C12: get on a Cell or a Thunk changes no node payload, no edge and no
\* edge weight, and every get on a Thunk runs its generator.
C12_GetCellThunkFrame ==
    [][lastOp'.op = "get" /\ nodes[lastOp'.node].kind \in {"Cell", "Thunk"} =>
         /\ nodes' = nodes
         /\ edges' = edges
         /\ nodes[lastOp'.node].kind = "Thunk" =>
               /\ lastOp'.regen
               /\ calls'[lastOp'.node] = Cap(calls[lastOp'.node] + 1)
               /\ gets'[lastOp'.node].runs = Cap(gets[lastOp'.node].runs + 1)]_vars

\* A second get on a Thunk with a dirty incoming edge.
C12_Witness ==
    /\ IsGetOn(lastOp, "Thunk")
    /\ gets[lastOp.node].runs = 2
    /\ is_dirty(edges, lastOp.node)

\* C14: dirtiness is transitive: a node with a dirty incoming edge has only
\* dirty outgoing edges.
C14_DirtyTransitive ==
    \A n \in NodeIds(nodes) :
        is_dirty(edges, n) => \A i \in 1 .. Len(edges) : edges[i].src = n => edges[i].w

\* C15: set(c, v) changes only the value of c and the weights of edges
\* reachable from c; other edge weights, other Cells and every Memo cache
\* slot stay as they were.
C15_SetFrame ==
    [][lastOp'.op = "set" =>
         LET c == lastOp'.node IN
         /\ Len(nodes') = Len(nodes) /\ Len(edges') = Len(edges)
         /\ \A n \in NodeIds(nodes) : n # c => nodes'[n] = nodes[n]
         /\ nodes'[c] = [nodes[c] EXCEPT !.val = nodes'[c].val]
         /\ \A i \in 1 .. Len(edges) :
               /\ edges'[i].src = edges[i].src /\ edges'[i].dst = edges[i].dst
               /\ edges[i].src \notin Downstream(edges, c) => edges'[i].w = edges[i].w]_vars

\* After a set, an edge out of its reach is still clean next to a dirtied one.
C15_Witness ==
    /\ lastOp.op = "set"
    /\ \E i, j \in 1 .. Len(edges) :
          /\ edges[i].src \notin Downstream(edges, lastOp.node) /\ ~edges[i].w
          /\ edges[j].src \in Downstream(edges, lastOp.node) /\ edges[j].w

\* Number of occurrences of d in the sequence s.
Count(s, d) == Cardinality({i \in 1 .. Len(s) : s[i] = d})

\* C17: a dependency listed k > 1 times gets k parallel edges, and right
\* after a set on a Cell that reaches it all k of them are dirty.
C17_ParallelEdgesDirtied ==
    /\ \A n, d \in NodeIds(nodes) :
          Count(Incoming(edges, n), d) = Count(built[n].deps, d)
    /\ lastOp.op = "set" =>
          \A i, j \in 1 .. Len(edges) :
              ( /\ i # j
                /\ edges[i].src = edges[j].src /\ edges[i].dst = edges[j].dst
                /\ edges[i].src \in Downstream(edges, lastOp.node) )
              => edges[i].w /\ edges[j].w

Constructors == {"cell", "thunk", "memo", "lone_thunk", "lone_memo"}

\* C18: with handles returned by earlier constructions only, every edge
\* runs from an older node to a newer one, so there is no cycle and no
\* self-loop, and the traversal of set meets no back edge.
C18_EdgesRunForward ==
    /\ \A i \in 1 .. Len(edges) : edges[i].src < edges[i].dst
    /\ \A c \in NodeIds(nodes) : c \notin ReachSet(edges, {edges[i].dst : i \in {j \in 1 .. Len(edges) : edges[j].src = c}})
    /\ \A c \in NodeIds(nodes) : ~depth_first_search(edges, c).back

\* A set has traversed a graph in which a node is reached along two paths.
C18_Witness ==
    /\ lastOp.op = "set"
    /\ \E i, j \in 1 .. Len(edges) :
          /\ edges[i].dst = edges[j].dst /\ edges[i].src # edges[j].src
          /\ edges[i].w /\ edges[j].w
          /\ edges[j].src \in Downstream(edges, edges[i].src)

\* C20: each constructor adds exactly one node and returns a new handle;
\* nothing removes a node or an edge; the node count is the number of
\* constructor calls; set and get leave the node and edge sets unchanged.
C20_NodesOnlyAdded ==
    [][/\ Len(nodes) = Len(built)
       /\ lastOp'.op \in Constructors =>
             /\ Len(nodes') = Len(nodes) + 1
             /\ lastOp'.node = Len(nodes')
             /\ lastOp'.node \notin NodeIds(nodes)
       /\ lastOp'.op \in {"get", "set"} =>
             /\ Len(nodes') = Len(nodes)
             /\ Len(edges') = Len(edges)
       /\ Len(nodes') >= Len(nodes) /\ Len(edges') >= Len(edges)
       /\ \A n \in NodeIds(nodes) : nodes'[n].kind = nodes[n].kind
       /\ \A i \in 1 .. Len(edges) :
             edges'[i].src = edges[i].src /\ edges'[i].dst = edges[i].dst]_vars

\* Three constructions, one of each remaining operation in between.
C20_Witness ==
    /\ Len(nodes) = MaxNodes
    /\ Len(edges) >= 2
    /\ \E c \in NodeIds(nodes) : mutated[c]
    /\ \E n \in NodeIds(nodes) : gets[n].first # NoRet

\* C13: no handle operation makes a Thunk or Memo handle acceptable to set:
\* set is only applied to Cell nodes and never reaches its non-Cell branch.
C13_SetOnlyOnCells ==
    /\ lastOp.op # "set_unreachable"
    /\ lastOp.op = "set" => nodes[lastOp.node].kind = "Cell"

\* C16: when a generator run by get on a Memo panics, the panic reaches the
\* caller of the outermost get and the graph is as before the call: no cache
\* slot and no edge weight has changed, and no borrow is left behind that
\* would make a later call behave differently.
C16_PanicLeavesGraph ==
    [][/\ lastOp'.op = "get_panic" =>
             /\ nodes' = nodes /\ edges' = edges
             /\ stack' = << >> /\ borrow' = 0
             /\ lastOp'.node = stack[1].node
       /\ (stack # << >> /\ nodes[stack[1].node].kind = "Memo") =>
             nodes' = nodes /\ edges' = edges]_vars

\* The generator of a Memo with a dirty incoming edge has panicked.
C16_Witness ==
    /\ lastOp.op = "get_panic"
    /\ nodes[lastOp.node].kind = "Memo"
    /\ is_dirty(edges, lastOp.node)

\* C19: while a generator run by get is running the graph is not modified:
\* a set or a constructor called from inside it panics before changing
\* anything, a nested get goes through, and the value get returns is the
\* value of one state of the graph.
C19_NoMutationWhileRunning ==
    [][/\ stack # << >> =>
             /\ nodes' = nodes /\ edges' = edges
             /\ lastOp'.op \in {"call", "get", "get_panic", "borrow_mut_panic"}
       /\ lastOp'.op = "borrow_mut_panic" =>
             /\ stack # << >> /\ stack' = << >>
             /\ UNCHANGED <<nodes, edges, written, built>>
       /\ lastOp'.op = "get" => lastOp'.ret = get(nodes', lastOp'.node)]_vars

\* A set or constructor was called from inside the generator of a node that
\* reads other nodes, and panicked.
C19_Witness ==
    /\ lastOp.op = "borrow_mut_panic"
    /\ nodes[lastOp.node].reads # << >>
    /\ stack = << >>

\* The traversal of set(c) discovers exactly the nodes downstream of c,
\* finishes each of them, meets no back edge, and records one entry per edge
\* that leaves a downstream node: every such node is expanded once.
SetVisitsOnce(c) ==
    LET r == depth_first_search(edges, c)
        D == Downstream(edges, c)
    IN  /\ r.disc = D
        /\ r.fin = D
        /\ ~r.back
        /\ Len(r.rec) = Cardinality({i \in 1 .. Len(edges) : edges[i].src \in D})
        /\ \A j \in 1 .. Len(r.rec) : r.rec[j] \in 1 .. Len(edges)

\* C21: on every graph the construction operations build, the traversal of
\* set on any Cell visits each downstream node exactly once (so set ends
\* after a bounded amount of work), and every get that has started a
\* generator comes back to its caller, as long as the running generators
\* keep taking their steps and read only their declared dependencies.
C21_Terminates ==
    /\ [](\A c \in NodeIds(nodes) : nodes[c].kind = "Cell" => SetVisitsOnce(c))
    /\ ((stack # << >>) ~> (stack = << >>))

\* A get on a generator node whose generator called get on another generator
\* node has returned, after a set had dirtied an edge below a Cell.
C21_Witness ==
    /\ lastOp.op = "get"
    /\ lastOp.regen
    /\ stack = << >>
    /\ \E i \in 1 .. Len(nodes[lastOp.node].reads) :
          nodes[nodes[lastOp.node].reads[i]].reads # << >>
    /\ \E e \in 1 .. Len(edges) : nodes[edges[e].src].kind = "Cell" /\ edges[e].w

====
